---------------------------- MODULE Spec2Model ----------------------------
(***************************************************************************)
(* A model of src/python/eeglab_to_chunks.py: the resolution pyramid       *)
(* builder, the chunk partitioner, the chunk encoder, the directory and    *)
(* index writer, the output directory derivation and the command line      *)
(* loop over the input files.                                              *)
(*                                                                         *)
(* Arrays are sequences indexed from 1; the code's 0-based indices (chunk  *)
(* index, level ordinal, channel and trace index) are kept 0-based         *)
(* wherever they are data: in file names and in the encoded record.        *)
(* A signal is channels[c][t][j]: channel, trace, sample.                  *)
(***************************************************************************)
EXTENDS Integers, Sequences, FiniteSets, TLC

VARIABLES
    pc,                  \* position of the process / function under study
    channels,            \* the input array [channel][trace][sample]
    chunk_size,          \* args.chunk_size
    channel_chunks,      \* result of channels_to_chunks
    unique_sized,        \* result of create_downsampled_channels_list
    input_paths,         \* two input file paths, as character sequences
    prefix,              \* args.prefix
    destination,         \* args.destination
    chunk_dirs,          \* chunk_dir_path of each input path
    index_json,          \* the file <chunk_dir>/index.json
    dirs,                \* the directories at and below <chunk_dir>
    files,               \* the chunk files below <chunk_dir>: path -> the
                         \* records it holds, none while it is empty
    channel_chunks_list, \* write_eeglab_chunks.channel_chunks_list
    time_interval,       \* write_eeglab_chunks.time_interval
    step,                \* number of steps of write_chunks' loops done
    cursor,              \* the directory shutil.rmtree is emptying
    outcome,             \* how the last conversion ended
    written,             \* history: the paths the current conversion created
    runs,                \* conversions started on this directory so far
    stale,               \* history: the chunk files there when it started:
                         \* none, more than it writes (larger), or not
    files_arg,           \* args.files: 0 an unreadable file, N > 0 a
                         \* recording of N samples
    loop_i,              \* number of files the loop of line 189 is done with
    status               \* per file: pending, converted, or the exception

coreVars == <<channels, chunk_size, channel_chunks, unique_sized>>
pathVars == <<input_paths, prefix, destination, chunk_dirs>>
fsVars == <<index_json, dirs, files>>
runVars == <<channel_chunks_list, time_interval, step, cursor, outcome,
             written, stale, runs>>
mainVars == <<files_arg, loop_i, status>>
vars == <<pc, coreVars, pathVars, fsVars, runVars, mainVars>>

(***************************************************************************)
(* Bounds of the model.                                                    *)
(***************************************************************************)
MaxChannels == 2
MaxTraces == 2
MaxLen == 5
MaxChunk == 4
MaxBase == 1
MaxPyramidLen == 18
MaxPathLen == 3
MaxRunChannels == 2
MaxRunLen == 9
MaxRunChunk == 2
MaxFiles == 3
MaxRuns == 3

\* an optional argument: None, or a value
None == [isNone |-> TRUE, v |-> <<>>]
Some(x) == [isNone |-> FALSE, v |-> x]

\* the variables a specification does not use stay at these values
IdlePath ==
    /\ input_paths = <<>>
    /\ prefix = None
    /\ destination = None
    /\ chunk_dirs = <<>>

\* index.json: absent, opened and truncated but not yet written, or holding
\* a document
NoIndex == [state |-> "absent", doc |-> <<>>]
EmptyIndex == [state |-> "partial", doc |-> <<>>]
IndexOf(doc) == [state |-> "complete", doc |-> <<doc>>]

IdleRun ==
    /\ index_json = NoIndex
    /\ dirs = {}
    /\ files = [p \in {} |-> 0]
    /\ channel_chunks_list = <<>>
    /\ time_interval = <<>>
    /\ step = 0
    /\ cursor = <<>>
    /\ outcome = "none"
    /\ written = {}
    /\ stale = "none"
    /\ runs = 1

IdleMain ==
    /\ files_arg = <<>>
    /\ loop_i = 0
    /\ status = <<>>

(***************************************************************************)
(* Input arrays.  Samples are floating point numbers in the program; here  *)
(* they are fixed-point numbers, Unit standing for 1.0.  Sample j of trace *)
(* t of channel c carries a value that identifies its position; with base  *)
(* 0 the first sample is a genuine 0, indistinguishable from padding.      *)
(***************************************************************************)
Unit == 10000

Signal(C, T, N, base) ==
    [c \in 1..C |-> [t \in 1..T |-> [j \in 1..N |->
        (base + ((c - 1) * T + (t - 1)) * N + (j - 1)) * Unit]]]

\* channels.shape[-1]
LastAxis(x) == Len(x[1][1])

\* math.ceil(a / b) for a >= 0, b >= 1
CeilDiv(a, b) == (a + b - 1) \div b

Zeros(n) == [k \in 1..n |-> 0]

\* np.pad(row, (0, padding), 'constant', constant_values=0) on the last axis
PadRow(row, padding) == row \o Zeros(padding)

\* the same with the padding sequence reversed: (padding, 0)
PadRowFront(row, padding) == Zeros(padding) \o row

MapRows(x, F(_)) == [c \in 1..Len(x) |-> [t \in 1..Len(x[c]) |-> F(x[c][t])]]

pad_channels_front(x, S) ==
    LET num_chunks == CeilDiv(LastAxis(x), S)
        total_chunked_points == num_chunks * S
        padding == total_chunked_points - LastAxis(x)
        F(row) == PadRowFront(row, padding)
    IN  MapRows(x, F)

pad_channels(x, S) ==
    LET num_chunks == CeilDiv(LastAxis(x), S)
        total_chunked_points == num_chunks * S
        padding == total_chunked_points - LastAxis(x)
        F(row) == PadRow(row, padding)
    IN  MapRows(x, F)

\* ndarray.reshape of the last axis to (n, S), row-major: flat element f of
\* the row lands at [f div S][f mod S]
ReshapeRow(row, n, S) ==
    [i \in 1..n |-> [k \in 1..S |-> row[(i - 1) * S + k]]]

channels_to_chunks(x, S) ==
    LET padded_channels == pad_channels(x, S)
        n == LastAxis(padded_channels) \div S
        F(row) == ReshapeRow(row, n, S)
    IN  MapRows(padded_channels, F)

(***************************************************************************)
(* The partitioner on its own: channels_to_chunks applied to one level.    *)
(***************************************************************************)
InitChunks ==
    /\ pc = "level"
    /\ \E C \in 1..MaxChannels, T \in 1..MaxTraces, N \in 1..MaxLen,
          base \in 0..MaxBase :
            channels = Signal(C, T, N, base)
    /\ chunk_size \in 1..MaxChunk
    /\ channel_chunks = <<>>
    /\ unique_sized = <<>>
    /\ IdlePath
    /\ IdleRun
    /\ IdleMain

ChannelsToChunks ==
    /\ pc = "level"
    /\ channel_chunks' = channels_to_chunks(channels, chunk_size)
    /\ pc' = "chunked"
    /\ UNCHANGED <<channels, chunk_size, unique_sized,
                   pathVars, mainVars, fsVars, runVars>>

NextChunks == ChannelsToChunks

SpecChunks == InitChunks /\ [][NextChunks]_vars

\* concatenation of the chunks of one trace in index order
RECURSIVE Concat(_)
Concat(chunks) ==
    IF chunks = <<>> THEN <<>> ELSE Head(chunks) \o Concat(Tail(chunks))

\* C1: sample j (0-based) of every channel and trace is found in chunk
\* floor(j/S) at offset j mod S; chunk i holds exactly samples
\* [i*S, (i+1)*S) of the zero-padded level; and the chunks concatenated in
\* index order and truncated to N are the original N samples.
C1_RoundTrip ==
    pc = "chunked" =>
        LET N == LastAxis(channels)
            S == chunk_size
        IN  \A c \in 1..Len(channels) : \A t \in 1..Len(channels[c]) :
              LET row == channels[c][t]
                  chunks == channel_chunks[c][t]
              IN  /\ Len(channel_chunks) = Len(channels)
                  /\ Len(channel_chunks[c]) = Len(channels[c])
                  /\ Len(chunks) = CeilDiv(N, S)
                  /\ \A j \in 0..(N - 1) :
                        chunks[(j \div S) + 1][(j % S) + 1] = row[j + 1]
                  /\ \A i \in 0..(Len(chunks) - 1) :
                        /\ Len(chunks[i + 1]) = S
                        /\ \A k \in 0..(S - 1) :
                              chunks[i + 1][k + 1] =
                                  IF i * S + k < N THEN row[i * S + k + 1] ELSE 0
                  /\ SubSeq(Concat(chunks), 1, N) = row

\* a level whose length is no multiple of the chunk length, with several
\* chunks, channels and traces, has been partitioned
C1_Witness ==
    /\ pc = "chunked"
    /\ LastAxis(channels) % chunk_size # 0
    /\ LastAxis(channels) > chunk_size
    /\ chunk_size > 1
    /\ Len(channels) > 1
    /\ Len(channels[1]) > 1

(***************************************************************************)
(* The resolution pyramid builder.                                         *)
(*                                                                         *)
(* A call either returns a value or raises; Return and Raise are the two   *)
(* outcomes.                                                               *)
(***************************************************************************)
Return(v) == [exc |-> "none", value |-> <<v>>]
Raise(e) == [exc |-> e, value |-> <<>>]
Raised(r) == r.exc # "none"
ValueOf(r) == r.value[1]

RECURSIVE Pow(_, _)
Pow(b, e) == IF e = 0 THEN 1 ELSE b * Pow(b, e - 1)

\* math.ceil(math.log(N) / math.log(S)) for N >= 1, S >= 2: the least k
\* with S^k >= N.  (The floating point quotient gives the same k for every
\* N below 125; log(125)/log(5) is the first that rounds above an integer.)
RECURSIVE CeilLogFrom(_, _, _)
CeilLogFrom(N, S, k) == IF Pow(S, k) >= N THEN k ELSE CeilLogFrom(N, S, k + 1)
CeilLog(N, S) == CeilLogFrom(N, S, 0)

(***************************************************************************)
(* scipy.signal.resample_poly(x, up=1, down), line 58.  It designs a       *)
(* linear-phase low-pass filter h = firwin(2 * half_len + 1, 1 / down,     *)
(* window=('kaiser', 5.0)) with half_len = 10 * down, filters the row      *)
(* (zeros beyond its ends) and keeps every down-th output, so that output  *)
(* sample k is centred on input sample k * down:                           *)
(*     y[k] = sum over m of h[half_len + k * down - m] * x[m].             *)
(* The taps are those of firwin, in units of 1 / (Limb * Limb); they are   *)
(* symmetric, and firwin(down)[i + 1] is the tap at distance i from the    *)
(* centre.  The sums are taken in two limbs, to stay within 32 bits.       *)
(***************************************************************************)
Limb == 10000

firwin(down) ==
    CASE down = 2 ->
          <<50025874, 31670035, 0, -10093020, 0, 5528828, 0, -3434018, 0,
            2202312, 0, -1398997, 0, 855656, 0, -489483, 0, 250897, 0,
            -105146, 0>>
      [] down = 3 ->
          <<33353539, 27514772, 13655222, 0, -6626324, -5182809, 0, 3484134,
            2934104, 0, -2138583, -1839849, 0, 1369067, 1180764, 0, -872911,
            -746729, 0, 538275, 452642, 0, -312117, -255169, 0, 163633,
            127583, 0, -71716, -50758, 0>>
      [] down = 4 ->
          <<25015914, 22490814, 15836902, 7413570, 0, -4349444, -5047111,
            -3003359, 0, 2232084, 2764743, 1724308, 0, -1360637, -1717213,
            -1085577, 0, 869881, 1101287, 696673, 0, -555497, -699582,
            -439479, 0, 343849, 427879, 265127, 0, -200653, -244771, -148301,
            0, 106308, 125463, 73163, 0, -47542, -52579, -28265, 0>>
      [] down = 5 ->
          <<20013010, 18705237, 15092333, 10016661, 4613969, 0, -3021261,
            -4141403, -3575012, -1934001, 0, 1525831, 2215992, 1999082,
            1119006, 0, -925946, -1367053, -1249087, -706033, 0, 591411,
            875901, 801504, 453039, 0, -377986, -557696, -507832, -285333, 0,
            234484, 342808, 308965, 171625, 0, -137341, -197729, -175223,
            -95537, 0, 73208, 102758, 88512, 46739, 0, -33118, -44270, -35989,
            -17719, 0>>

Abs(a) == IF a < 0 THEN -a ELSE a

\* (a / b) rounded to the nearest integer, b > 0
RoundDiv(a, b) == (2 * a + b) \div (2 * b)

RECURSIVE SumTo(_, _)
SumTo(f, n) == IF n = 0 THEN 0 ELSE f[n] + SumTo(f, n - 1)

\* the row filtered and decimated: ceil(N / down) output samples
ResampleRow(row, down) ==
    LET half_len == 10 * down
        h == firwin(down)
        N == Len(row)
    IN  [k \in 1..CeilDiv(N, down) |->
            LET tap(m) == LET i == Abs((k - 1) * down - (m - 1))
                          IN  IF i <= half_len THEN h[i + 1] ELSE 0
                th(m) == tap(m) \div Limb
                tl(m) == tap(m) % Limb
                xh(m) == row[m] \div Limb
                xl(m) == row[m] % Limb
                high == [m \in 1..N |-> th(m) * xh(m)]
                low == [m \in 1..N |-> th(m) * xl(m) + tl(m) * xh(m)
                                          + ((tl(m) * xl(m)) \div Limb)]
            IN  SumTo(high, N) + RoundDiv(SumTo(low, N), Limb)]

\* scipy.signal.resample_poly(x, up=1, down=down, axis=-1): down < 1 is a
\* ValueError, down = 1 (up = down) a copy of the input.
resample_poly(x, down) ==
    IF down < 1 THEN Raise("ValueError")
    ELSE IF down = 1 THEN Return(x)
    ELSE LET F(row) == ResampleRow(row, down) IN Return(MapRows(x, F))

\* line 55 divides in floating point; N / down <= 2 * S is decided as
\* N <= 2 * S * down
downsample_channels(x, S, downsampling) ==
    IF downsampling = 0 THEN Return(x)
    ELSE LET down == Pow(S, downsampling)
             N == LastAxis(x)
         IN  IF N <= S * 2 * down
             THEN resample_poly(x, N \div (S * 2))
             ELSE resample_poly(x, down)

\* the loop of lines 69-75 over the candidate levels
RECURSIVE UniqueSized(_, _, _)
UniqueSized(levels, sizes, acc) ==
    IF levels = <<>> THEN acc
    ELSE LET channel == Head(levels)
         IN  IF LastAxis(channel) \in sizes
             THEN UniqueSized(Tail(levels), sizes, acc)
             ELSE UniqueSized(Tail(levels), sizes \cup {LastAxis(channel)},
                              Append(acc, channel))

create_downsampled_channels_list(x, S) ==
    IF LastAxis(x) = 0 THEN Raise("ValueError")            \* math.log(0)
    ELSE IF S = 1 THEN Raise("ZeroDivisionError")          \* / math.log(1)
    ELSE LET downsamplings == CeilLog(LastAxis(x), S)
             candidates == [d \in 1..downsamplings |->
                               downsample_channels(x, S, d - 1)]
         IN  IF \E d \in 1..downsamplings : Raised(candidates[d])
             THEN Raise((candidates[CHOOSE d \in 1..downsamplings :
                            /\ Raised(candidates[d])
                            /\ \A e \in 1..(d - 1) : ~Raised(candidates[e])]).exc)
             ELSE Return(UniqueSized(
                     [d \in 1..downsamplings |-> ValueOf(candidates[d])],
                     {}, <<>>))

InitPyramid ==
    /\ pc = "input"
    /\ \E C \in 1..MaxChannels, N \in 0..MaxPyramidLen, base \in 0..MaxBase :
            channels = Signal(C, 1, N, base)
    /\ chunk_size \in 1..MaxChunk
    /\ channel_chunks = <<>>
    /\ unique_sized = <<>>
    /\ IdlePath
    /\ IdleRun
    /\ IdleMain

CreateDownsampledChannelsList ==
    /\ pc = "input"
    /\ LET r == create_downsampled_channels_list(channels, chunk_size)
       IN  IF Raised(r)
           THEN /\ pc' = "raised"
                /\ unique_sized' = <<>>
           ELSE /\ pc' = "returned"
                /\ unique_sized' = ValueOf(r)
    /\ UNCHANGED <<channels, chunk_size, channel_chunks,
                   pathVars, mainVars, fsVars, runVars>>

NextPyramid == CreateDownsampledChannelsList

SpecPyramid == InitPyramid /\ [][NextPyramid]_vars

LevelSizes(levels) == [d \in 1..Len(levels) |-> LastAxis(levels[d])]

StrictlyDecreasing(sizes) ==
    /\ \A d \in 1..(Len(sizes) - 1) : sizes[d + 1] < sizes[d]
    /\ \A d, e \in 1..Len(sizes) : d # e => sizes[d] # sizes[e]

\* C2: every returned pyramid has a level 0 of exactly N samples, each
\* further kept level is strictly shorter than the one before it, and no
\* two kept levels have the same length.
C2_PyramidMonotone ==
    pc = "returned" =>
        /\ Len(unique_sized) >= 1
        /\ LastAxis(unique_sized[1]) = LastAxis(channels)
        /\ StrictlyDecreasing(LevelSizes(unique_sized))

\* C3: for N >= 1, S >= 2 and N < 2*S the builder returns, and what it
\* returns is exactly level 0, the unmodified input.
C3_ShortInputYieldsLevelZero ==
    (/\ pc # "input"
     /\ LastAxis(channels) >= 1
     /\ chunk_size >= 2
     /\ LastAxis(channels) < 2 * chunk_size) =>
        /\ pc = "returned"
        /\ unique_sized = <<channels>>

(***************************************************************************)
(* The output directory of an input file.  A path is a sequence of         *)
(* characters; os.path is posixpath.                                       *)
(***************************************************************************)
sep == "/"
extsep == "."
PathChars == {sep, extsep, "a"}

\* str.rfind(ch) + 1: the 1-based position of the last ch in p, 0 if none
RFind(p, ch) ==
    IF \E i \in 1..Len(p) : p[i] = ch
    THEN CHOOSE i \in 1..Len(p) :
            p[i] = ch /\ \A j \in (i + 1)..Len(p) : p[j] # ch
    ELSE 0

\* os.path.splitext(p)[0]: the extension starts at the last dot after the
\* last separator, unless only dots precede it in the file name
splitext_root(p) ==
    LET sepIndex == RFind(p, sep)
        dotIndex == RFind(p, extsep)
    IN  IF /\ dotIndex > sepIndex
           /\ \E f \in (sepIndex + 1)..(dotIndex - 1) : p[f] # extsep
        THEN SubSeq(p, 1, dotIndex - 1)
        ELSE p

\* str.rstrip(sep)
RECURSIVE RStrip(_)
RStrip(p) ==
    IF p # <<>> /\ p[Len(p)] = sep THEN RStrip(SubSeq(p, 1, Len(p) - 1)) ELSE p

\* os.path.split(p): <<head, tail>>
split(p) ==
    LET i == RFind(p, sep)
        head == SubSeq(p, 1, i)
        tail == SubSeq(p, i + 1, Len(p))
    IN  IF head # <<>> /\ \E j \in 1..Len(head) : head[j] # sep
        THEN <<RStrip(head), tail>>
        ELSE <<head, tail>>

\* one step of os.path.join: path joined with the next component b
join2(path, b) ==
    IF b # <<>> /\ b[1] = sep THEN b
    ELSE IF path = <<>> \/ path[Len(path)] = sep THEN path \o b
    ELSE path \o <<sep>> \o b

\* os.path.join(a, b, c)
join(a, b, c) == join2(join2(a, b), c)

dot_chunks == <<".", "c", "h", "u", "n", "k", "s">>

\* the directory name left out of the join
chunk_dir_path_noname(input_path, pfx, dest) ==
    LET base_path == splitext_root(input_path)
        root == IF dest.isNone THEN split(base_path)[1] ELSE dest.v
        prefix_ == IF pfx.isNone THEN <<>> ELSE pfx.v
    IN  join2(root, prefix_) \o dot_chunks

chunk_dir_path(input_path, pfx, dest) ==
    LET base_path == splitext_root(input_path)
        root == IF dest.isNone THEN split(base_path)[1] ELSE dest.v
        chunk_dir_name == split(base_path)[2]
        prefix_ == IF pfx.isNone THEN <<>> ELSE pfx.v
        chunk_dir == join(root, prefix_, chunk_dir_name)
    IN  chunk_dir \o dot_chunks

\* the non-empty paths of at most n characters
RECURSIVE PathsUpTo(_)
PathsUpTo(n) ==
    IF n = 0 THEN {<<>>}
    ELSE LET shorter == PathsUpTo(n - 1)
         IN  shorter \cup {Append(p, ch) : p \in shorter, ch \in PathChars}
Paths == PathsUpTo(MaxPathLen) \ {<<>>}

Prefixes == {None, Some(<<"p">>), Some(<<sep, "p">>)}
Destinations == {None, Some(<<"d">>)}

IdleCore ==
    /\ channels = <<>>
    /\ chunk_size = 0
    /\ channel_chunks = <<>>
    /\ unique_sized = <<>>

InitPath ==
    /\ pc = "args"
    /\ input_paths \in Paths \X Paths
    /\ prefix \in Prefixes
    /\ destination \in Destinations
    /\ chunk_dirs = <<>>
    /\ IdleCore
    /\ IdleRun
    /\ IdleMain

\* chunk_dir_path for both input files, under the same options
ChunkDirPath ==
    /\ pc = "args"
    /\ chunk_dirs' = <<chunk_dir_path(input_paths[1], prefix, destination),
                       chunk_dir_path(input_paths[2], prefix, destination)>>
    /\ pc' = "derived"
    /\ UNCHANGED <<coreVars, input_paths, prefix, destination,
                   mainVars, fsVars, runVars>>

NextPath == ChunkDirPath

SpecPath == InitPath /\ [][NextPath]_vars

\* C8, as claimed: two distinct input paths, processed with the same
\* options, get distinct output directories.
C8_DistinctPathsDistinctDirs ==
    (pc = "derived" /\ input_paths[1] # input_paths[2]) =>
        chunk_dirs[1] # chunk_dirs[2]

\* the last component of a path, and that component without its extension
\* (the extension: from the last dot on, when a character other than a dot
\* precedes that dot in the component)
LastComponent(p) ==
    IF \E i \in 1..Len(p) : p[i] = sep
    THEN SubSeq(p, 1 + (CHOOSE i \in 1..Len(p) :
                    p[i] = sep /\ \A j \in (i + 1)..Len(p) : p[j] # sep), Len(p))
    ELSE p
Stem(p) ==
    LET name == LastComponent(p)
        dots == {i \in 1..Len(name) :
                    name[i] = extsep /\ \E j \in 1..(i - 1) : name[j] # extsep}
    IN  IF dots = {} THEN name
        ELSE SubSeq(name, 1, (CHOOSE i \in dots : \A j \in dots : j <= i) - 1)
\* the directory part of a path, trailing separators removed
Parent(p) ==
    LET n == Len(p) - Len(LastComponent(p))
        head == SubSeq(p, 1, n)
    IN  IF \A j \in 1..n : head[j] = sep THEN head ELSE RStrip(head)

\* C8, amended: two input paths whose file names differ once the extension
\* is removed get distinct output directories; two paths with the same
\* such name get the same directory when they share the parent directory
\* or a destination override is given.
C8_DirsDistinctIffStemsDistinct ==
    pc = "derived" =>
        LET p == input_paths[1]
            q == input_paths[2]
        IN  /\ Stem(p) # Stem(q) => chunk_dirs[1] # chunk_dirs[2]
            /\ (/\ Stem(p) = Stem(q)
                /\ (~destination.isNone \/ Parent(p) = Parent(q)))
                    => chunk_dirs[1] = chunk_dirs[2]

\* two files of one directory with different names have been given their
\* output directories
C8_Witness ==
    /\ pc = "derived"
    /\ input_paths[1] # input_paths[2]
    /\ Stem(input_paths[1]) # Stem(input_paths[2])
    /\ Parent(input_paths[1]) = Parent(input_paths[2])
    /\ Parent(input_paths[1]) # <<>>
    /\ chunk_dirs[1] # chunk_dirs[2]

(***************************************************************************)
(* The directory and index writer, and one conversion after another of     *)
(* the same input path: write_eeglab_chunks, step by step, on a file       *)
(* system that keeps what earlier conversions left.  A step is one call    *)
(* that changes the file system (mkdir, open, write, unlink, rmdir), and   *)
(* a conversion can fail or be stopped between any two.  Paths are         *)
(* relative to <chunk_dir> and are sequences of names.                     *)
(***************************************************************************)
Digits == <<"0", "1", "2", "3", "4", "5", "6", "7", "8", "9">>

\* str(n) of a non-negative integer
RECURSIVE Str(_)
Str(n) == IF n < 10 THEN Digits[n + 1] ELSE Str(n \div 10) \o Digits[(n % 10) + 1]

chunk_dir == <<>>
index_path == <<"index.json">>

\* a misspelt directory name: rmtree then finds nothing, which is ignored
stale_tree_path_typo == <<"raws">>

\* os.path.join(chunk_dir, 'raw'), the tree write_chunks removes
stale_tree_path == <<"raw">>

trace_path(d, c, t) == <<"raw", Str(d), Str(c), Str(t)>>
chunk_path(d, c, t, i) == Append(trace_path(d, c, t), Str(i) \o ".buf")

IsUnder(p, root) == Len(p) >= Len(root) /\ SubSeq(p, 1, Len(root)) = root

\* the directory a path lies in
Front(p) == SubSeq(p, 1, Len(p) - 1)

\* one mkdir call: a directory that is there already is left as it is
\* (os.makedirs does not create an ancestor that exists, and the EEXIST
\* for the path itself is ignored, line 92)
mkdir(ds, path) == ds \cup {path}

\* create_path_dirs(path), lines 88-93, as the sequence of the mkdir
\* calls of os.makedirs: <chunk_dir> first, the path itself last
create_path_dirs(path) == [n \in 1..(Len(path) + 1) |-> SubSeq(path, 1, n - 1)]

Put(f, p, v) == [q \in DOMAIN f \cup {p} |-> IF q = p THEN v ELSE f[q]]
Restrict(f, D) == [q \in D |-> f[q]]

\* the last two axes exchanged
ShapeSwapped(x) == <<Len(x), Len(x[1]), Len(x[1][1][1]), Len(x[1][1])>>

\* list(channels.shape) of a chunk tensor [channel][trace][chunk][sample]
Shape(x) == <<Len(x), Len(x[1]), Len(x[1][1]), Len(x[1][1][1])>>

\* list(range(n))
Range(n) == [i \in 1..n |-> i - 1]

json_dict(ti, S, downsamplings, ccl) ==
    [timeInterval |-> ti,
     chunkSize |-> S,
     downsamplings |-> downsamplings,
     shapes |-> [d \in 1..Len(ccl) |-> Shape(ccl[d])],
     traceTypes |-> <<>>]

\* chunk_pb.FloatChunk: the record a chunk file holds
FloatChunk(index, downsampling, samples) ==
    [index |-> index, downsampling |-> downsampling, samples |-> samples]

\* the two positional fields exchanged
encode_chunk_swapped(chunk, index, downsampling) ==
    FloatChunk(downsampling, index, chunk)

encode_chunk(chunk, index, downsampling) ==
    FloatChunk(index, downsampling, chunk)

create_chunks_from_channels_list(channels_list, S) ==
    [d \in 1..Len(channels_list) |-> channels_to_chunks(channels_list[d], S)]

\* eeglab_to_chunks after the reader: x is the array with its trace axis
eeglab_to_chunks(x, S) ==
    LET r == create_downsampled_channels_list(x, S)
    IN  IF Raised(r) THEN r
        ELSE Return(create_chunks_from_channels_list(ValueOf(r), S))

\* (parsed.times[0], parsed.times[-1]), in sample periods
TimeInterval(x) == <<0, LastAxis(x) - 1>>

\* the loops of write_chunks, lines 125-142, as the sequence of their file
\* system calls: per trace the mkdir calls of create_path_dirs, down to
\* the trace directory, then per chunk the open of line 141, which
\* creates or truncates the file, and the write of line 142
OpsOfChunk(d, c, t, i) ==
    <<[kind |-> "open", path |-> chunk_path(d, c, t, i), at |-> <<d, c, t, i>>],
      [kind |-> "write", path |-> chunk_path(d, c, t, i), at |-> <<d, c, t, i>>]>>
OpsOfTrace(ccl, d, c, t) ==
    [n \in 1..Len(create_path_dirs(trace_path(d, c, t))) |->
        [kind |-> "mkdir", path |-> create_path_dirs(trace_path(d, c, t))[n],
         at |-> <<d, c, t, 0>>]] \o
    Concat([i \in 1..Len(ccl[d + 1][c + 1][t + 1]) |->
                OpsOfChunk(d, c, t, i - 1)])
OpsOfChannel(ccl, d, c) ==
    Concat([t \in 1..Len(ccl[d + 1][c + 1]) |-> OpsOfTrace(ccl, d, c, t - 1)])
OpsOfLevel(ccl, d) ==
    Concat([c \in 1..Len(ccl[d + 1]) |-> OpsOfChannel(ccl, d, c - 1)])
WriteOps(ccl) ==
    Concat([d \in 1..Len(ccl) |-> OpsOfLevel(ccl, d - 1)])

\* the index written last, after the chunks
step_after_index_last(stage) ==
    CASE stage = "load" -> "rmtree"
      [] stage = "rmtree" -> "write"
      [] stage = "write" -> "index"
      [] stage = "index" -> "done"

\* the chunks written before the stale tree is removed
step_after_write_first(stage) ==
    CASE stage = "load" -> "index"
      [] stage = "index" -> "write"
      [] stage = "write" -> "rmtree"
      [] stage = "rmtree" -> "done"

\* the order of write_eeglab_chunks and write_chunks: index document,
\* removal of the stale tree, chunk writes
step_after(stage) ==
    CASE stage = "load" -> "index"
      [] stage = "index" -> "rmtree"
      [] stage = "rmtree" -> "write"
      [] stage = "write" -> "done"

\* the except clauses around rmtree, lines 121-124, for an exception that
\* leaves shutil.rmtree: FileNotFoundError is swallowed; for any other the
\* clause `except e:` evaluates the local name e, which is not bound, and
\* that UnboundLocalError is what leaves write_chunks
rmtree_handlers(exc) ==
    IF exc = "FileNotFoundError" THEN "swallowed" ELSE "UnboundLocalError"

InitRun ==
    /\ pc = "idle"
    /\ IdleCore
    /\ IdlePath
    /\ IdleRun
    /\ IdleMain

\* the lengths of the recordings converted: one sample (an empty pyramid),
\* three and five (one level when the pyramid builder returns), and the
\* longest (two levels)
RunLengths == {1, 3, 5, MaxRunLen}

\* the number of chunk files write_chunks writes
NumChunks(ccl) ==
    SumTo([d \in 1..Len(ccl) |->
              Len(ccl[d]) * Len(ccl[d][1]) * Len(ccl[d][1][1])], Len(ccl))

\* what the reader returns for a recording of C channels and N samples,
\* with the trace axis of line 155 added
Recording(C, N) == Signal(C, 1, N, 0)

\* eeglab_to_chunks of every recording and chunk size within the bounds
Conversions ==
    [C \in 1..MaxRunChannels |-> [N \in 1..MaxRunLen |->
        [S \in 1..MaxRunChunk |-> eeglab_to_chunks(Recording(C, N), S)]]]

\* the process of a conversion ends: its memory is gone, the file system
\* stays as it is
Terminate(how) ==
    /\ pc' = "exited"
    /\ outcome' = how
    /\ channels' = <<>>
    /\ chunk_size' = 0
    /\ channel_chunks_list' = <<>>
    /\ time_interval' = <<>>
    /\ step' = 0
    /\ cursor' = <<>>
    /\ written' = {}
    /\ stale' = "none"
    /\ UNCHANGED <<channel_chunks, unique_sized, pathVars, mainVars, fsVars,
                   runs>>

\* line 165, load_channels raises: the reader cannot read the file
ReaderError ==
    /\ pc = "idle"
    /\ Terminate("ReaderError")

\* lines 164-165: the output directory is derived, the reader and the
\* pyramid builder run; nothing is written yet
LoadChannels ==
    /\ pc = "idle"
    /\ \E C \in 1..MaxRunChannels, N \in RunLengths, S \in 1..MaxRunChunk :
        LET x == Recording(C, N)
            r == Conversions[C][N][S]
        IN  IF Raised(r)
            THEN Terminate(r.exc)
            ELSE /\ pc' = step_after("load")
                 /\ outcome' = "running"
                 /\ channels' = x
                 /\ chunk_size' = S
                 /\ channel_chunks_list' = ValueOf(r)
                 /\ time_interval' = TimeInterval(x)
                 /\ step' = 0
                 /\ cursor' = <<>>
                 /\ written' = {}
                 /\ stale' = IF DOMAIN files = {} THEN "none"
                             ELSE IF Cardinality(DOMAIN files)
                                       > NumChunks(ValueOf(r))
                             THEN "larger" ELSE "smaller"
                 /\ UNCHANGED <<channel_chunks, unique_sized, pathVars,
                                mainVars, fsVars, runs>>

\* line 107: create_path_dirs(chunk_dir).  The directories above
\* <chunk_dir> are outside this file system: one mkdir call.
CreateIndexDir ==
    /\ pc = "index"
    /\ dirs' = mkdir(dirs, create_path_dirs(chunk_dir)[1])
    /\ written' = written \cup (dirs' \ dirs)
    /\ pc' = "open"
    /\ UNCHANGED <<coreVars, pathVars, mainVars, index_json, files,
                   channel_chunks_list, time_interval, step, cursor, outcome,
                   stale, runs>>

\* line 108: open(..., 'w+') creates or truncates index.json
OpenIndexJson ==
    /\ pc = "open"
    /\ index_json' = EmptyIndex
    /\ written' = written \cup {index_path}
    /\ pc' = "dump"
    /\ UNCHANGED <<coreVars, pathVars, mainVars, dirs, files,
                   channel_chunks_list, time_interval, step, cursor, outcome,
                   stale, runs>>

\* line 109: json.dump into the buffered file, and the file is closed; the
\* document reaches the file system in one write
DumpIndexJson ==
    /\ pc = "dump"
    /\ index_json' = IndexOf(json_dict(time_interval, chunk_size,
                                       Range(Len(channel_chunks_list)),
                                       channel_chunks_list))
    /\ pc' = step_after("index")
    /\ UNCHANGED <<coreVars, pathVars, mainVars, dirs, files, runVars>>

\* the entries directly in a directory
Entries(root) ==
    {p \in dirs \cup DOMAIN files : Len(p) = Len(root) + 1 /\ IsUnder(p, root)}

\* the directory shutil.rmtree is in: the tree's root when it starts
RmtreeAt == IF cursor = <<>> THEN stale_tree_path ELSE cursor

\* line 120 when there is no such directory: FileNotFoundError
RmtreeNotFound ==
    /\ pc = "rmtree"
    /\ stale_tree_path \notin dirs
    /\ IF rmtree_handlers("FileNotFoundError") = "swallowed"
       THEN /\ pc' = step_after("rmtree")
            /\ UNCHANGED <<coreVars, pathVars, mainVars, fsVars, runVars>>
       ELSE Terminate(rmtree_handlers("FileNotFoundError"))

\* line 120: shutil.rmtree goes through the tree depth first, the entries
\* of a directory in the order the file system lists them, and removes
\* file by file, and each directory once it is empty.  Its next call that
\* changes the file system is the unlink of a file somewhere below the
\* directory it is in; it is then in that file's directory.
RmtreeUnlink ==
    /\ pc = "rmtree"
    /\ stale_tree_path \in dirs
    /\ \E p \in DOMAIN files :
        /\ IsUnder(p, RmtreeAt)
        /\ files' = Restrict(files, DOMAIN files \ {p})
        /\ cursor' = Front(p)
    /\ UNCHANGED <<pc, coreVars, pathVars, mainVars, index_json, dirs,
                   channel_chunks_list, time_interval, step, outcome, written,
                   stale, runs>>

\* line 120: or the rmdir of an empty directory: one below the directory
\* it is in, or, when nothing is left in it, that directory itself, which
\* takes it back to the parent.  The rmdir of the root ends rmtree.
RmtreeRmdir ==
    /\ pc = "rmtree"
    /\ stale_tree_path \in dirs
    /\ \E p \in dirs :
        /\ IsUnder(p, RmtreeAt)
        /\ Entries(p) = {}
        /\ dirs' = dirs \ {p}
        /\ IF p = stale_tree_path
           THEN /\ cursor' = <<>>
                /\ pc' = step_after("rmtree")
           ELSE /\ cursor' = Front(p)
                /\ pc' = pc
    /\ UNCHANGED <<coreVars, pathVars, mainVars, index_json, files,
                   channel_chunks_list, time_interval, step, outcome, written,
                   stale, runs>>

\* lines 125-142: the next file system call of the loops
WriteChunksStep ==
    /\ pc = "write"
    /\ step < Len(WriteOps(channel_chunks_list))
    /\ LET op == WriteOps(channel_chunks_list)[step + 1]
           d == op.at[1]
           i == op.at[4]
           chunk == channel_chunks_list[d + 1][op.at[2] + 1][op.at[3] + 1][i + 1]
       IN  CASE op.kind = "mkdir" ->
                /\ dirs' = mkdir(dirs, op.path)
                /\ written' = written \cup (dirs' \ dirs)
                /\ UNCHANGED files
             [] op.kind = "open" ->
                /\ files' = Put(files, op.path, <<>>)
                /\ written' = written \cup {op.path}
                /\ UNCHANGED dirs
             [] op.kind = "write" ->
                /\ files' = Put(files, op.path, <<encode_chunk(chunk, i, d)>>)
                /\ UNCHANGED <<dirs, written>>
    /\ step' = step + 1
    /\ UNCHANGED <<pc, coreVars, pathVars, mainVars, index_json,
                   channel_chunks_list, time_interval, cursor, outcome, stale,
                   runs>>

\* the loops are over
WriteChunksReturn ==
    /\ pc = "write"
    /\ step = Len(WriteOps(channel_chunks_list))
    /\ pc' = step_after("write")
    /\ UNCHANGED <<coreVars, pathVars, mainVars, fsVars, runVars>>

\* write_eeglab_chunks returns
WriteEeglabChunksReturn ==
    /\ pc = "done"
    /\ Terminate("completed")

InFileSystemCall ==
    \/ pc \in {"index", "open", "dump", "rmtree"}
    \/ pc = "write" /\ step < Len(WriteOps(channel_chunks_list))

\* a file system call fails for another reason.  From makedirs (line 93),
\* open and write the OSError ends the conversion; an exception that
\* leaves rmtree, an OSError or a KeyboardInterrupt, goes through the
\* except clauses of lines 121-124 first
OtherIOError ==
    /\ InFileSystemCall
    /\ IF pc = "rmtree"
       THEN Terminate(rmtree_handlers("OSError"))
       ELSE Terminate("OSError")

\* the process is stopped between two steps
Interrupt ==
    /\ pc \in {"index", "open", "dump", "rmtree", "write", "done"}
    /\ Terminate("interrupted")

\* the program is started again on the same input path
Invoke ==
    /\ pc = "exited"
    /\ runs < MaxRuns
    /\ runs' = runs + 1
    /\ pc' = "idle"
    /\ outcome' = "none"
    /\ UNCHANGED <<coreVars, pathVars, mainVars, fsVars, channel_chunks_list,
                   time_interval, step, cursor, written, stale>>

NextRun ==
    \/ ReaderError
    \/ LoadChannels
    \/ CreateIndexDir
    \/ OpenIndexJson
    \/ DumpIndexJson
    \/ RmtreeNotFound
    \/ RmtreeUnlink
    \/ RmtreeRmdir
    \/ WriteChunksStep
    \/ WriteChunksReturn
    \/ WriteEeglabChunksReturn
    \/ OtherIOError
    \/ Interrupt
    \/ Invoke

SpecRun == InitRun /\ [][NextRun]_vars

(***************************************************************************)
(* Properties of a conversion.  pc = "done" is the state of a completed    *)
(* conversion: every step of write_eeglab_chunks has been taken.           *)
(***************************************************************************)
\* the pyramid of the conversion under way
Levels == ValueOf(create_downsampled_channels_list(channels, chunk_size))

\* the (level, channel, trace, chunk) positions of that pyramid, 0-based
Positions ==
    {q \in (0..(Len(Levels) - 1)) \X (0..(Len(channels) - 1)) \X {0}
           \X (0..(LastAxis(channels) - 1)) :
        q[4] < CeilDiv(LastAxis(Levels[q[1] + 1]), chunk_size)}

PathOf(q) == chunk_path(q[1], q[2], q[3], q[4])

OldFiles == DOMAIN files \ written
NewFiles == DOMAIN files \cap written

\* C4: after a completed conversion the index document lists the level
\* ordinals 0..L-1 and as many shapes, and shapes[i] is what is on disk
\* under raw/i: that many channel directories, each with that many trace
\* directories, each with that many chunk files, each of chunkSize samples.
C4_IndexMatchesTree ==
    pc = "done" =>
        /\ index_json.state = "complete"
        /\ LET doc == index_json.doc[1]
               L == Len(doc.shapes)
           IN  /\ doc.downsamplings = [i \in 1..L |-> i - 1]
               /\ Len(doc.downsamplings) = Len(doc.shapes)
               /\ Entries(<<"raw">>) = {<<"raw", Str(i)>> : i \in 0..(L - 1)}
               /\ \A i \in 0..(L - 1) :
                    LET shape == doc.shapes[i + 1]
                        chans == Entries(<<"raw", Str(i)>>)
                    IN  /\ Len(shape) = 4
                        /\ shape[4] = doc.chunkSize
                        /\ chans \subseteq dirs
                        /\ Cardinality(chans) = shape[1]
                        /\ \A ch \in chans :
                            /\ Entries(ch) \subseteq dirs
                            /\ Cardinality(Entries(ch)) = shape[2]
                            /\ \A tr \in Entries(ch) :
                                /\ Entries(tr) \subseteq DOMAIN files
                                /\ Cardinality(Entries(tr)) = shape[3]
                                /\ \A f \in Entries(tr) :
                                    /\ Len(files[f]) = 1
                                    /\ Len(files[f][1].samples) = shape[4]

\* a conversion with two levels and two channels has completed where an
\* earlier tree stood
C4_Witness ==
    /\ pc = "done"
    /\ stale # "none"
    /\ Len(index_json.doc[1].shapes) = 2
    /\ index_json.doc[1].shapes[1][1] = 2
    /\ index_json.doc[1].shapes[1][3] # index_json.doc[1].shapes[2][3]

\* C5: whatever the output directory held before, a completed conversion
\* leaves under raw exactly one chunk file per position of its pyramid,
\* none of them from an earlier run, so that the index document and the
\* chunk files are a function of the input and the chunk size alone; and
\* the absence of the raw tree never ends a conversion.
C5_ExactTreeWhateverBefore ==
    /\ pc = "done" =>
        /\ DOMAIN files = {PathOf(q) : q \in Positions}
        /\ OldFiles = {}
        /\ \A p \in dirs : IsUnder(p, <<"raw">>) =>
              \E q \in Positions : IsUnder(PathOf(q), p)
        /\ LET r == eeglab_to_chunks(channels, chunk_size)
           IN  /\ ~Raised(r)
               /\ index_json = IndexOf(json_dict(TimeInterval(channels),
                       chunk_size, Range(Len(ValueOf(r))), ValueOf(r)))
               /\ \A q \in Positions :
                     /\ Len(files[PathOf(q)]) = 1
                     /\ files[PathOf(q)][1].samples =
                          ValueOf(r)[q[1] + 1][q[2] + 1][q[3] + 1][q[4] + 1]
    /\ outcome # "FileNotFoundError"

\* a conversion has completed where a larger tree of an earlier run stood
C5_Witness ==
    /\ pc = "done"
    /\ stale = "larger"
    /\ Cardinality(DOMAIN files) > 0

\* C6: at no time does the raw tree hold a chunk file of an earlier run
\* together with a chunk file of the current run; once the current run
\* has created anything under raw, nothing older is left there.
C6_RemovalBeforeWrites ==
    /\ OldFiles = {} \/ NewFiles = {}
    /\ (\E p \in written : IsUnder(p, <<"raw">>)) =>
          \A q \in dirs \cup DOMAIN files :
              IsUnder(q, <<"raw">>) => q \in written

\* chunks are being written where a tree of an earlier run stood
C6_Witness ==
    /\ pc = "write"
    /\ stale # "none"
    /\ NewFiles # {}
    /\ step < Len(WriteOps(channel_chunks_list))

\* C9: after a completed conversion the file at raw/d/c/t/i holds index i,
\* downsampling d (the level ordinal) and the chunk_size samples
\* [i*S, (i+1)*S) of channel c, trace t of level d, zeros past the
\* level's end; and distinct positions have distinct paths.
C9_ChunkFileContent ==
    pc = "done" =>
        /\ \A q \in Positions :
            LET level == Levels[q[1] + 1]
                row == level[q[2] + 1][q[3] + 1]
                S == chunk_size
            IN  /\ PathOf(q) \in DOMAIN files
                /\ Len(files[PathOf(q)]) = 1
                /\ files[PathOf(q)][1].index = q[4]
                /\ files[PathOf(q)][1].downsampling = q[1]
                /\ files[PathOf(q)][1].samples =
                     [n \in 1..S |-> IF q[4] * S + n <= Len(row)
                                     THEN row[q[4] * S + n] ELSE 0]
        /\ \A q1, q2 \in Positions : q1 # q2 => PathOf(q1) # PathOf(q2)

\* a pyramid of two levels, two channels and a padded last chunk has been
\* written completely
C9_Witness ==
    /\ pc = "done"
    /\ Len(Levels) = 2
    /\ Len(channels) = 2
    /\ LastAxis(Levels[2]) % chunk_size # 0
    /\ chunk_path(1, 1, 0, 2) \in DOMAIN files

\* the directories of the raw tree
RawDirs == {p \in dirs : IsUnder(p, <<"raw">>)}

\* the index document of the conversion under way
ThisIndex ==
    IndexOf(json_dict(TimeInterval(channels), chunk_size,
                      Range(Len(channel_chunks_list)), channel_chunks_list))

WritingIndex == pc \in {"index", "open", "dump"}
RawTreeUnchanged == files' = files /\ RawDirs' = RawDirs

\* C10: the reader and the pyramid builder run before anything is written
\* (the step that runs them, failing or not, leaves the directory as it
\* is); the index document is complete before the stale tree is touched
\* and before any chunk is written, so every chunk file of the current
\* run is accompanied by the index document of that run.
C10_IndexFirst ==
    /\ [](/\ NewFiles # {} => (index_json = ThisIndex /\ index_path \in written)
          /\ pc \in {"rmtree", "write", "done"} =>
                (index_json = ThisIndex /\ index_path \in written)
          /\ (\E p \in written : IsUnder(p, <<"raw">>)) =>
                index_path \in written)
    /\ [][pc = "idle" => UNCHANGED fsVars]_vars
    /\ [][WritingIndex => RawTreeUnchanged]_vars

\* the index document describes chunks that are not written yet
C10_Witness ==
    /\ pc = "write"
    /\ index_json = ThisIndex
    /\ NewFiles # {}
    /\ \E q \in Positions : PathOf(q) \notin DOMAIN files

(***************************************************************************)
(* The command line loop, lines 188-195: write_eeglab_chunks for each      *)
(* file of args.files in turn.  A conversion is one step here; how it      *)
(* goes inside is SpecRun.                                                 *)
(***************************************************************************)
\* every exception is caught and the loop goes on with the next file
main_loop_catches_all(exc) == TRUE

\* the loop of lines 189-195 has no try statement: no exception of
\* write_eeglab_chunks is caught
main_loop_catches(exc) == FALSE

\* how write_eeglab_chunks ends for one file: the reader's exception, the
\* pyramid builder's, that of a file system call that fails (io_fails
\* names the call), or none
write_eeglab_chunks_outcome(file, S, io_fails) ==
    IF file = 0 THEN "ReaderError"
    ELSE IF Raised(Conversions[1][file][S]) THEN Conversions[1][file][S].exc
    ELSE IF io_fails = "rmtree" THEN rmtree_handlers("OSError")
    ELSE IF io_fails # "none" THEN "OSError"
    ELSE "completed"

RECURSIVE SeqsUpTo(_, _)
SeqsUpTo(S, n) ==
    IF n = 0 THEN {<<>>}
    ELSE LET shorter == SeqsUpTo(S, n - 1)
         IN  shorter \cup {Append(q, x) : q \in shorter, x \in S}

InitMain ==
    /\ pc = "main"
    /\ files_arg \in SeqsUpTo(0..MaxRunLen, MaxFiles) \ {<<>>}
    /\ chunk_size \in 1..MaxRunChunk
    /\ loop_i = 0
    /\ status = [i \in 1..Len(files_arg) |-> "pending"]
    /\ channels = <<>>
    /\ channel_chunks = <<>>
    /\ unique_sized = <<>>
    /\ IdlePath
    /\ IdleRun

\* line 190: the conversion of the next file
ConvertFile ==
    /\ pc = "main"
    /\ loop_i < Len(files_arg)
    /\ \E io_fails \in {"none", "makedirs", "open", "rmtree", "write"} :
        LET how == write_eeglab_chunks_outcome(files_arg[loop_i + 1],
                                               chunk_size, io_fails)
        IN  IF how = "completed"
            THEN /\ status' = [status EXCEPT ![loop_i + 1] = "converted"]
                 /\ pc' = "main"
            ELSE /\ status' = [status EXCEPT ![loop_i + 1] = how]
                 /\ pc' = IF main_loop_catches(how) THEN "main" ELSE "traceback"
    /\ loop_i' = loop_i + 1
    /\ UNCHANGED <<coreVars, pathVars, fsVars, runVars, files_arg>>

\* the loop is over: the program ends normally
ExitMain ==
    /\ pc = "main"
    /\ loop_i = Len(files_arg)
    /\ pc' = "exit"
    /\ UNCHANGED <<coreVars, pathVars, fsVars, runVars, mainVars>>

NextMain == ConvertFile \/ ExitMain

SpecMain == InitMain /\ [][NextMain]_vars

Failed(i) == status[i] \notin {"pending", "converted"}

\* C7, as claimed: when the program has ended, every file other than a
\* failing one has been converted.
C7_SiblingsStillConverted ==
    pc \in {"traceback", "exit"} =>
        \A i \in 1..Len(files_arg) : ~Failed(i) => status[i] = "converted"

\* C7, amended: a fatal failure ends the whole run.  The files listed
\* before the failing one have been converted, those listed after it are
\* never started; a run that ends normally has converted every file.
C7_FailureEndsTheRun ==
    /\ pc = "traceback" =>
        /\ loop_i >= 1
        /\ Failed(loop_i)
        /\ \A i \in 1..(loop_i - 1) : status[i] = "converted"
        /\ \A i \in (loop_i + 1)..Len(files_arg) : status[i] = "pending"
    /\ pc = "exit" => \A i \in 1..Len(files_arg) : status[i] = "converted"
    /\ pc = "main" => \A i \in 1..loop_i : status[i] = "converted"

\* the second of three files has failed
C7_Witness ==
    /\ pc = "traceback"
    /\ Len(files_arg) = 3
    /\ loop_i = 2
    /\ status[1] = "converted"
    /\ Failed(2)
    /\ status[3] = "pending"

=============================================================================
